---- MODULE Spec2Model ----
(***************************************************************************)
(* A model of simple-jsonrpc (src/src/index.ts): the JSON-RPC client made  *)
(* by createFetch, its error classes, and the mock transport made by       *)
(* createMockFetch.                                                        *)
(*                                                                         *)
(* JavaScript values are tagged records; objects carry their own           *)
(* enumerable properties as a set of [k, v] pairs; strings produced by     *)
(* JSON.stringify are kept as the JSON value they spell.                   *)
(***************************************************************************)
EXTENDS Integers, Sequences, FiniteSets, TLC

VARIABLES cfg, heap, calls, mock

vars == <<cfg, heap, calls, mock>>

(***************************************************************************)
(* Bounds of the model.                                                    *)
(***************************************************************************)
\* the number of calls made through one client
MaxCalls == 2

\* the longest argument list of a call
MaxArgs == 2

(***************************************************************************)
(* JavaScript values.                                                      *)
(***************************************************************************)
Undefined == [t |-> "undefined"]

Null == [t |-> "null"]

NaN == [t |-> "NaN"]

Num(n) == [t |-> "number", n |-> n]

Str(s) == [t |-> "string", s |-> s]

\* the string JSON.stringify returns for a value whose JSON form is v
JsonText(v) == [t |-> "jsonstring", json |-> v]

Arr(e) == [t |-> "array", e |-> e]

Obj(p) == [t |-> "object", p |-> p]

\* a reference to a mutable object kept in the heap (a headers object)
Ref(r) == [t |-> "ref", r |-> r]

Prop(k, v) == [k |-> k, v |-> v]

\* a completion of a JavaScript evaluation: a value, or a thrown exception
Normal(v) == [thrown |-> FALSE, v |-> v]

Throw(e) == [thrown |-> TRUE, v |-> e]

\* a built-in exception (TypeError, RangeError, SyntaxError)
NativeError(name) == [t |-> "error", name |-> name]

\* o[k] for an object o (undefined for a missing key and for a primitive)
GetProp(o, k) ==
  IF o.t = "object" /\ \E pr \in o.p : pr.k = k
  THEN (CHOOSE pr \in o.p : pr.k = k).v
  ELSE Undefined

HasProp(o, k) == o.t = "object" /\ \E pr \in o.p : pr.k = k

\* o[k] = v
SetProp(o, k, v) == Obj({pr \in o.p : pr.k # k} \cup {Prop(k, v)})

\* {...a, ...b}
Spread(a, b) ==
  Obj(b.p \cup {pr \in a.p : ~ \E q \in b.p : q.k = pr.k})

\* ToBoolean(v)
Truthy(v) ==
  CASE v.t \in {"undefined", "null", "NaN"} -> FALSE
    [] v.t = "number" -> v.n # 0
    [] v.t = "string" -> v.s # ""
    [] OTHER -> TRUE

\* typeof v === 'object'
TypeofObject(v) ==
  v.t \in {"null", "object", "array", "RPCError", "HttpError", "error", "URL", "Response"}

\* Array.isArray(v)
IsArray(v) == v.t = "array"

(***************************************************************************)
(* JSON.stringify and JSON.parse.                                          *)
(***************************************************************************)
\* the own enumerable properties of a class instance, as a plain object
OwnProps(v) ==
  CASE v.t = "RPCError" ->
         Obj({Prop("name", Str(v.name)), Prop("code", v.code),
              Prop("message", v.message), Prop("data", v.data)})
    [] v.t = "HttpError" ->
         Obj({Prop("name", Str(v.name)), Prop("status", Num(v.status)),
              Prop("statusText", Str(v.statusText)), Prop("message", Str(v.message))})
    [] OTHER -> v

RECURSIVE ToJSON(_)
\* the JSON value JSON.stringify writes for v (v is not undefined): NaN is
\* written as null, an undefined array element as null, and a property whose
\* value is undefined is left out
ToJSON(v) ==
  CASE v.t = "NaN" -> Null
    [] v.t = "array" ->
         Arr([i \in 1..Len(v.e) |->
               IF v.e[i].t = "undefined" THEN Null ELSE ToJSON(v.e[i])])
    [] v.t = "object" ->
         Obj({Prop(pr.k, ToJSON(pr.v)) : pr \in {q \in v.p : q.v.t # "undefined"}})
    [] v.t \in {"RPCError", "HttpError"} -> ToJSON(OwnProps(v))
    [] v.t = "jsonstring" -> v
    [] OTHER -> v

JSONstringify(v) == IF v.t = "undefined" THEN Undefined ELSE JsonText(ToJSON(v))

\* JSON.parse(text): the strings of the model that are not the output of
\* JSON.stringify ("garbage", "404 Not Found") are not JSON texts
JSONparse(text) ==
  IF text.t = "jsonstring" THEN Normal(text.json) ELSE Throw(NativeError("SyntaxError"))

(***************************************************************************)
(* Error Model: RPCErrorCode, RPCError, HttpError.                         *)
(***************************************************************************)
ParseError == -32700

InvalidRequest == -32600

MethodNotFound == -32601

InvalidParams == -32602

InternalError == -32603

UpperCase == <<"A","B","C","D","E","F","G","H","I","J","K","L","M",
               "N","O","P","Q","R","S","T","U","V","W","X","Y","Z">>

LowerCase == <<"a","b","c","d","e","f","g","h","i","j","k","l","m",
               "n","o","p","q","r","s","t","u","v","w","x","y","z">>

IsUpper(c) == \E i \in 1..Len(UpperCase) : UpperCase[i] = c

\* RPCErrorCode[code]: the enum's reverse mapping, as a sequence of characters
RPCErrorCodeName(code) ==
  CASE code = ParseError -> <<"P","a","r","s","e","E","r","r","o","r">>
    [] code = InvalidRequest -> <<"I","n","v","a","l","i","d","R","e","q","u","e","s","t">>
    [] code = MethodNotFound -> <<"M","e","t","h","o","d","N","o","t","F","o","u","n","d">>
    [] code = InvalidParams -> <<"I","n","v","a","l","i","d","P","a","r","a","m","s">>
    [] code = InternalError -> <<"I","n","t","e","r","n","a","l","E","r","r","o","r">>

RECURSIVE SpaceBeforeUpper(_)
\* s.replace(/([A-Z])/g, ' $1')
SpaceBeforeUpper(s) ==
  IF s = <<>> THEN <<>>
  ELSE (IF IsUpper(Head(s)) THEN <<" ", Head(s)>> ELSE <<Head(s)>>)
       \o SpaceBeforeUpper(Tail(s))

RECURSIVE TrimLeft(_)
TrimLeft(s) == IF s # <<>> /\ Head(s) = " " THEN TrimLeft(Tail(s)) ELSE s

RECURSIVE TrimRight(_)
TrimRight(s) ==
  IF s # <<>> /\ s[Len(s)] = " " THEN TrimRight(SubSeq(s, 1, Len(s) - 1)) ELSE s

\* s.trim()
Trim(s) == TrimRight(TrimLeft(s))

ToLowerChar(c) ==
  IF IsUpper(c) THEN LowerCase[CHOOSE i \in 1..Len(UpperCase) : UpperCase[i] = c] ELSE c

\* s.toLowerCase()
ToLowerCase(s) == [i \in 1..Len(s) |-> ToLowerChar(s[i])]

RECURSIVE Join(_)
\* the string spelled by a sequence of characters
Join(s) == IF s = <<>> THEN "" ELSE Head(s) \o Join(Tail(s))

\* the codes for which the constructor synthesizes a message
IsReservedCode(code) ==
  code.t = "number"
  /\ ((code.n <= InvalidRequest /\ code.n >= InternalError) \/ code.n = ParseError)

\* new RPCError(code, message, data)
RPCError(code, message, data) ==
  [t |-> "RPCError", name |-> "RPCError", code |-> code,
   message |->
     IF IsReservedCode(code) /\ ~ Truthy(message)
     THEN Str(Join(ToLowerCase(Trim(SpaceBeforeUpper(RPCErrorCodeName(code.n))))))
     ELSE (IF message.t \in {"undefined", "null"} THEN Str("Unknown error") ELSE message),
   data |-> data]

\* a constructor that derives the message and forgets the statusText field
HttpErrorNoStatusText(status, statusText) ==
  [t |-> "HttpError", name |-> "HttpError", status |-> status,
   statusText |-> "", message |-> ToString(status) \o " " \o statusText]

\* new HttpError(status, statusText)
HttpError(status, statusText) ==
  [t |-> "HttpError", name |-> "HttpError", status |-> status,
   statusText |-> statusText, message |-> ToString(status) \o " " \o statusText]

(***************************************************************************)
(* The platform objects the code builds: URL and Response.                 *)
(***************************************************************************)
\* new URL(s): a fresh URL object; the serializer adds the path "/" to an
\* origin written without one
NewURL(s) == [t |-> "URL", href |-> IF s = "http://host" THEN "http://host/" ELSE s]

\* the statuses for which a Response may not carry a body
NullBodyStatus == {101, 103, 204, 205, 304}

\* a Response made without its init argument: status 200
NewResponseNoInit(body, status, statusText) ==
  Normal([t |-> "Response", status |-> 200, statusText |-> "", ok |-> TRUE,
          body |-> body])

\* new Response(body, {status, statusText}): a RangeError for a status outside
\* 200..599, a TypeError for a body given with a null-body status; ok is
\* status in 200..299
NewResponse(body, status, statusText) ==
  IF status < 200 \/ status > 599 THEN Throw(NativeError("RangeError"))
  ELSE IF status \in NullBodyStatus THEN Throw(NativeError("TypeError"))
  ELSE Normal([t |-> "Response", status |-> status, statusText |-> statusText,
               ok |-> (status >= 200 /\ status <= 299), body |-> body])

(***************************************************************************)
(* createFetch: the configuration captured by the closure.                 *)
(***************************************************************************)
\* the headers object of defaultRequestInit, created once per client
DefaultHeaders == Obj({Prop("Content-Type", Str("application/json"))})

\* the headers object of the caller's fetchOptions, when it has one
UserHeaders == Obj({Prop("X-User", Str("u"))})

\* Object.freeze({headers: {...}, method: 'POST'}): the freeze is shallow, the
\* headers object stays a mutable object shared by reference
defaultRequestInit ==
  Obj({Prop("headers", Ref("defaultHeaders")), Prop("method", Str("POST"))})

\* the fetchOptions a caller may configure
FetchOptionsSet ==
  { Obj({}),
    Obj({Prop("headers", Ref("userHeaders")), Prop("body", Str("user body")),
         Prop("credentials", Str("include"))}) }

\* Object.freeze({...options.fetchOptions})
userRequestInit == Spread(Obj({}), cfg.fetchOptions)

\* generateRequestInit(): a new object, a shallow copy of both
generateRequestInit == Spread(defaultRequestInit, userRequestInit)

\* an extractParams that never unwraps: every non-empty argument list is
\* sent as the list
extractParamsPositional(params) ==
  IF Len(params.e) = 0 THEN Undefined ELSE params

\* an extractParams that returns the argument list even when it is empty
extractParamsEmptyList(params) ==
  IF Len(params.e) = 1 /\ TypeofObject(params.e[1]) /\ ~ IsArray(params.e[1])
  THEN params.e[1]
  ELSE params

\* an extractParams that unwraps every single argument of type object, arrays
\* included
extractParamsNoArrayCheck(params) ==
  IF Len(params.e) = 0 THEN Undefined
  ELSE IF Len(params.e) = 1 /\ TypeofObject(params.e[1])
       THEN params.e[1]
       ELSE params

\* extractParams(params): params is the rest-argument array
extractParams(params) ==
  IF Len(params.e) = 0 THEN Undefined
  ELSE IF Len(params.e) = 1 /\ TypeofObject(params.e[1]) /\ ~ IsArray(params.e[1])
       THEN params.e[1]
       ELSE params

\* an envelope that carries the id null whatever the id generator returned
EnvelopeNullId(method, params, id) ==
  Obj({Prop("jsonrpc", Str("2.0")), Prop("method", Str(method)),
       Prop("params", extractParams(params)), Prop("id", Null)})

\* the RPCRequest object built by request
Envelope(method, params, id) ==
  Obj({Prop("jsonrpc", Str("2.0")), Prop("method", Str(method)),
       Prop("params", extractParams(params)), Prop("id", id)})

(***************************************************************************)
(* The caller's hooks.  A hook is caller code: what it does on one         *)
(* invocation is an input of the step that invokes it.                     *)
(***************************************************************************)
HookError == [t |-> "error", name |-> "HookError"]

\* what a configured hook may do: return its argument, return something
\* else, or throw; beforeFetch may also write to the headers it was handed
BeforeFetchBehaviours == {"same", "mutate", "replace", "throw"}

HookBehaviours == {"same", "transform", "throw"}

\* the headers object a RequestInit points to
HeadersOf(h, request) ==
  LET v == GetProp(request, "headers")
  IN IF v.t = "ref" THEN h[v.r] ELSE v

\* (options.options?.beforeFetch ?? (a => a))(ctx): the completion, and the
\* heap it leaves
beforeFetch(ctx, beh) ==
  CASE beh = "same" -> [c |-> Normal(ctx), heap |-> heap]
    [] beh = "mutate" ->
         LET v == GetProp(ctx.request, "headers")
         IN [c |-> Normal(ctx),
             heap |-> IF v.t = "ref"
                      THEN [heap EXCEPT ![v.r] = SetProp(@, "Authorization", Str("token"))]
                      ELSE heap]
    [] beh = "replace" ->
         [c |-> Normal([url |-> NewURL("http://other/rpc"),
                        request |-> Obj({Prop("method", Str("PUT")),
                                         Prop("headers", Obj({})),
                                         Prop("body", Str("hooked body"))})]),
          heap |-> heap]
    [] beh = "throw" -> [c |-> Throw(HookError), heap |-> heap]

\* (options.options?.onResponse ?? (a => a))(result)
onResponse(result, beh) ==
  CASE beh = "same" -> Normal(result)
    [] beh = "transform" -> Normal([result EXCEPT !.data = Str("transformed")])
    [] beh = "throw" -> Throw(HookError)

\* (options.options?.onError ?? (a => a))(e)
onError(e, beh) ==
  CASE beh = "same" -> Normal(e)
    [] beh = "transform" -> Normal([t |-> "error", name |-> "WrappedError"])
    [] beh = "throw" -> Throw(HookError)

\* the behaviours a stage can show: the identity when no hook is configured
BeforeFetchChoices == IF cfg.beforeFetch THEN BeforeFetchBehaviours ELSE {"same"}

OnResponseChoices == IF cfg.onResponse THEN HookBehaviours ELSE {"same"}

OnErrorChoices == IF cfg.onError THEN HookBehaviours ELSE {"same"}

(***************************************************************************)
(* The state.                                                              *)
(*   cfg    the options createFetch was given (fixed once the client is    *)
(*          made)                                                          *)
(*   heap   the mutable objects reachable from more than one call: the     *)
(*          headers objects of defaultRequestInit and of fetchOptions      *)
(*   calls  one record per call of request                                 *)
(*   mock   the objects held by the handlers given to createMockFetch      *)
(***************************************************************************)
Calls == 1..MaxCalls

IdleCall ==
  [pc |-> "idle", method |-> "", args |-> Undefined, id |-> Undefined,
   body |-> Undefined, ctx |-> Undefined, seenHeaders |-> Undefined,
   sent |-> Undefined, fetched |-> Undefined, handled |-> Undefined,
   onResponseArg |-> Undefined, onErrorArg |-> Undefined,
   events |-> <<>>, promise |-> "none", value |-> Undefined, unhandled |-> FALSE]

\* the configurations a client is made with
Configs ==
  [url : {"http://host/rpc"},
   beforeFetch : BOOLEAN, onResponse : BOOLEAN, onError : BOOLEAN,
   idGenerator : {"absent", "false", "fn"},
   fetchOptions : FetchOptionsSet]

\* the clients of the model: no hook configured, or all three of them together
\* with an id generator and no fetchOptions
HookProfiles ==
  {c \in Configs : /\ c.beforeFetch = c.onResponse /\ c.onResponse = c.onError
                   /\ c.beforeFetch => (c.idGenerator = "fn" /\ c.fetchOptions = Obj({}))}

InitHeap == [r \in {"defaultHeaders", "userHeaders"} |->
              IF r = "defaultHeaders" THEN DefaultHeaders ELSE UserHeaders]

\* a response that carries its payload under the wrong key
createMockRPCResponseAsData(result) ==
  Obj({Prop("jsonrpc", Str("2.0")), Prop("data", result), Prop("id", Null)})

\* createMockRPCResponse(result)
createMockRPCResponse(result) ==
  Obj({Prop("jsonrpc", Str("2.0")), Prop("result", result), Prop("id", Null)})

\* createMockRPCErrorResponse(code, message, data)
createMockRPCErrorResponse(code, message, data) ==
  Obj({Prop("jsonrpc", Str("2.0")), Prop("error", RPCError(code, message, data)),
       Prop("id", Null)})

\* the mock before any request: the method names registered in `actions`, and
\* the response object that the handler of "shared" made once and returns on
\* every invocation
NewMock(names) == [actions |-> names, shared |-> createMockRPCResponse(Str("pong"))]

InitMock == NewMock({})

(***************************************************************************)
(* request (lines 110-156).                                                *)
(***************************************************************************)
\* reject(e)
Reject(call, e) ==
  [call EXCEPT !.pc = "done", !.promise = "rejected", !.value = e,
               !.events = @ \o <<"reject">>]

\* resolve(v)
Resolve(call, v) ==
  [call EXCEPT !.pc = "done", !.promise = "resolved", !.value = v,
               !.events = @ \o <<"resolve">>]

\* a catch block that rejects with the error first and invokes onError after
\* the promise has settled
CatchBlockAfterReject(call, e, be) ==
  [Reject(call, e) EXCEPT !.onErrorArg = e, !.events = @ \o <<"onError">>]

\* the catch block (lines 150-154): reject with what onError returns; when
\* onError throws, the exception leaves the async executor, whose promise
\* nobody holds, and the call's promise is left pending
CatchBlock(call, e, be) ==
  LET r == onError(e, be)
      c1 == [call EXCEPT !.onErrorArg = e, !.events = @ \o <<"onError">>]
  IN IF r.thrown
     THEN [c1 EXCEPT !.pc = "done", !.unhandled = TRUE]
     ELSE Reject(c1, r.v)

\* a request that writes the serialized envelope into the options again after
\* beforeFetch has returned
RequestRestampBody(c, method, args, genId, bf) ==
  /\ calls[c].pc = "idle"
  /\ IF c = 1 THEN TRUE ELSE calls[c - 1].pc # "idle"
  /\ LET id == IF cfg.idGenerator = "fn" THEN genId ELSE Null
         body == Envelope(method, args, id)
         preRequestInit == SetProp(generateRequestInit, "body", JSONstringify(body))
         ctx == [url |-> NewURL(cfg.url), request |-> preRequestInit]
         r == beforeFetch(ctx, bf)
         ev == (IF cfg.idGenerator = "fn" THEN <<"idGenerator">> ELSE <<>>)
               \o <<"beforeFetch">>
         c1 == [calls[c] EXCEPT !.method = method, !.args = args, !.id = id,
                                !.body = body, !.ctx = ctx,
                                !.seenHeaders = HeadersOf(heap, preRequestInit)]
     IN /\ calls' = [calls EXCEPT ![c] =
                       IF r.c.thrown
                       THEN [c1 EXCEPT !.pc = "thrown", !.value = r.c.v, !.events = ev]
                       ELSE [c1 EXCEPT !.pc = "fetching",
                                       !.sent = [r.c.v EXCEPT !.request =
                                                   SetProp(@, "body", JSONstringify(body))],
                                       !.promise = "pending",
                                       !.events = ev \o <<"fetch">>]]
        /\ heap' = r.heap
  /\ UNCHANGED <<cfg, mock>>

\* lines 110-128: the synchronous part of request, up to the invocation of the
\* transport.  genId is what the id generator returns, bf what beforeFetch does.
Request(c, method, args, genId, bf) ==
  /\ calls[c].pc = "idle"
  /\ IF c = 1 THEN TRUE ELSE calls[c - 1].pc # "idle"
  /\ LET id == IF cfg.idGenerator = "fn" THEN genId ELSE Null
         body == Envelope(method, args, id)
         preRequestInit == SetProp(generateRequestInit, "body", JSONstringify(body))
         ctx == [url |-> NewURL(cfg.url), request |-> preRequestInit]
         r == beforeFetch(ctx, bf)
         ev == (IF cfg.idGenerator = "fn" THEN <<"idGenerator">> ELSE <<>>)
               \o <<"beforeFetch">>
         c1 == [calls[c] EXCEPT !.method = method, !.args = args, !.id = id,
                                !.body = body, !.ctx = ctx,
                                !.seenHeaders = HeadersOf(heap, preRequestInit)]
     IN /\ calls' = [calls EXCEPT ![c] =
                       IF r.c.thrown
                       THEN [c1 EXCEPT !.pc = "thrown", !.value = r.c.v, !.events = ev]
                       ELSE [c1 EXCEPT !.pc = "fetching", !.sent = r.c.v,
                                       !.promise = "pending",
                                       !.events = ev \o <<"fetch">>]]
        /\ heap' = r.heap
  /\ UNCHANGED <<cfg, mock>>

\* the transport's promise settles: fetch_ is any callable of the transport
\* interface, its outcome is an input
Transport(c, outcome) ==
  /\ calls[c].pc = "fetching"
  /\ calls' = [calls EXCEPT ![c] = [@ EXCEPT !.pc = "responded", !.fetched = outcome]]
  /\ UNCHANGED <<cfg, heap, mock>>

\* a continuation that throws the HttpError into the catch block instead of
\* rejecting with it
FetchReturnThrowing(c, be) ==
  /\ calls[c].pc = "responded"
  /\ LET call == calls[c]
         f == call.fetched
     IN calls' = [calls EXCEPT ![c] =
          IF f.thrown THEN CatchBlock(call, f.v, be)
          ELSE IF ~ f.v.ok
               THEN CatchBlock(call, [t |-> "HttpError", name |-> "HttpError",
                                      status |-> f.v.status,
                                      statusText |-> f.v.statusText,
                                      message |-> ""], be)
          ELSE [call EXCEPT !.pc = "parsing", !.events = @ \o <<"json">>]]
  /\ UNCHANGED <<cfg, heap, mock>>

\* lines 128-133: the continuation of `await fetch_(url, request)`
FetchReturn(c, be) ==
  /\ calls[c].pc = "responded"
  /\ LET call == calls[c]
         f == call.fetched
     IN calls' = [calls EXCEPT ![c] =
          IF f.thrown THEN CatchBlock(call, f.v, be)
          ELSE IF ~ f.v.ok THEN Reject(call, HttpError(f.v.status, f.v.statusText))
          ELSE [call EXCEPT !.pc = "parsing", !.events = @ \o <<"json">>]]
  /\ UNCHANGED <<cfg, heap, mock>>

\* whether a body parses to a response whose error field is not populated
\* (lines 133-146: the path that reaches onResponse)
BodyIsResult(body) ==
  LET parsed == JSONparse(body)
  IN /\ ~ parsed.thrown
     /\ parsed.v.t \notin {"null", "undefined"}
     /\ ~ Truthy(GetProp(parsed.v, "error"))

\* lines 133-154: the continuation of `await response.json()`
JsonReturn(c, br, be) ==
  /\ calls[c].pc = "parsing"
  /\ LET call == calls[c]
         response == call.fetched.v
         parsed == JSONparse(response.body)
         rpcResponse == parsed.v
         error == GetProp(rpcResponse, "error")
         result == [rpcResponse |-> rpcResponse, response |-> response,
                    data |-> GetProp(rpcResponse, "result")]
         r == onResponse(result, br)
         c1 == [call EXCEPT !.onResponseArg = result, !.events = @ \o <<"onResponse">>]
     IN calls' = [calls EXCEPT ![c] =
          IF parsed.thrown THEN CatchBlock(call, parsed.v, be)
          ELSE IF rpcResponse.t \in {"null", "undefined"}
               THEN CatchBlock(call, NativeError("TypeError"), be)
          ELSE IF Truthy(error)
               THEN CatchBlock(call, RPCError(GetProp(error, "code"),
                                              GetProp(error, "message"),
                                              GetProp(error, "data")), be)
          ELSE IF r.thrown THEN CatchBlock(c1, r.v, be)
          ELSE Resolve(c1, r.v)]
  /\ UNCHANGED <<cfg, heap, mock>>

(***************************************************************************)
(* The client over an arbitrary transport.                                 *)
(***************************************************************************)
\* the responses a transport may produce: the error objects a server sends
ErrNotFound == Obj({Prop("code", Num(MethodNotFound))})

ErrCustom == Obj({Prop("code", Num(1)), Prop("message", Str("boom")),
                  Prop("data", Str("detail"))})

RpcBody(props) == JsonText(Obj({Prop("jsonrpc", Str("2.0")), Prop("id", Null)} \cup props))

HttpResponse(ok, status, statusText, body) ==
  [t |-> "Response", status |-> status, statusText |-> statusText, ok |-> ok,
   body |-> body]

TransportOutcomes ==
  { Normal(HttpResponse(FALSE, 404, "Not Found", Str("garbage"))),
    Normal(HttpResponse(FALSE, 500, "Internal Server Error",
                        RpcBody({Prop("error", ErrCustom)}))),
    Normal(HttpResponse(TRUE, 200, "OK", RpcBody({Prop("result", Str("pong"))}))),
    Normal(HttpResponse(TRUE, 200, "OK", RpcBody({Prop("error", ErrNotFound)}))),
    Normal(HttpResponse(TRUE, 200, "OK",
                        RpcBody({Prop("error", ErrCustom), Prop("result", Str("pong"))}))),
    Normal(HttpResponse(TRUE, 200, "OK", Str("garbage"))),
    Throw(NativeError("TypeError")) }

\* the calls made over the arbitrary transport
Methods == {"echo"}

ArgLists == {Arr(<<Obj({Prop("x", Num(1))})>>)}

IdValues == {Num(7)}

Init ==
  /\ cfg \in HookProfiles
  /\ heap = InitHeap
  /\ calls = [c \in Calls |-> IdleCall]
  /\ mock = InitMock

DoRequest ==
  \E c \in Calls, m \in Methods, a \in ArgLists, g \in IdValues, bf \in BeforeFetchChoices :
    Request(c, m, a, g, bf)

DoTransport == \E c \in Calls, o \in TransportOutcomes : Transport(c, o)

\* a hook's behaviour is an input only of the steps that invoke the hook
DoFetchReturn ==
  \E c \in Calls :
    \E be \in (IF calls[c].pc = "responded" /\ calls[c].fetched.thrown
               THEN OnErrorChoices ELSE {"same"}) :
      FetchReturn(c, be)

DoJsonReturn ==
  \E c \in Calls :
    \E br \in (IF calls[c].pc = "parsing" /\ BodyIsResult(calls[c].fetched.v.body)
               THEN OnResponseChoices ELSE {"same"}) :
      \E be \in (IF calls[c].pc = "parsing"
                    /\ (br = "throw" \/ ~ BodyIsResult(calls[c].fetched.v.body))
                 THEN OnErrorChoices ELSE {"same"}) :
        JsonReturn(c, br, be)

Next == DoRequest \/ DoTransport \/ DoFetchReturn \/ DoJsonReturn

Spec == Init /\ [][Next]_vars

(***************************************************************************)
(* createMockFetch (lines 176-208).                                        *)
(***************************************************************************)
\* the handlers of the model, by the name they are registered under:
\*   echo    (req) => createMockRPCResponse(v)
\*   withId  (req) => ({...createMockRPCResponse('pong'), id: 99})
\*   shared  (req) => sharedResponse, one object made beforehand
\*   broken  (req) => createMockRPCErrorResponse(code)
\*   fail    (req) => new HttpError(status, statusText)
HandlerNames == {"echo", "withId", "shared", "broken", "fail"}

\* the property names every plain object inherits from Object.prototype
ObjectPrototypeNames ==
  { "constructor", "toString", "toLocaleString", "valueOf", "hasOwnProperty",
    "isPrototypeOf", "propertyIsEnumerable", "__proto__", "__defineGetter__",
    "__defineSetter__", "__lookupGetter__", "__lookupSetter__" }

\* actions[rpcRequest.method]: `actions` is a plain object, so a name that is
\* not registered is still found when Object.prototype has it; the value found
\* under "constructor" is the function Object, under "__proto__" the object
\* Object.prototype itself, under the other names the method of that name
LookupAction(actions, method) ==
  IF method.t = "string" /\ method.s \in actions THEN method.s
  ELSE IF method = Str("constructor") THEN "Object"
  ELSE IF method.t = "string" /\ method.s \in ObjectPrototypeNames
       THEN "Object.prototype." \o method.s
  ELSE "undefined"

\* action(rpcRequest, request): the completion of the call.  in is what the
\* handler's own code decides: the result v, the HttpError it makes.  The
\* values found on Object.prototype are called with `this` undefined:
\* Object(rpcRequest) returns rpcRequest, toString returns the tag of
\* undefined, the other methods throw a TypeError on their `this`, and
\* Object.prototype itself is not a function
CallAction(action, rpcRequest, in, shared) ==
  CASE action = "echo" -> Normal(createMockRPCResponse(in.v))
    [] action = "withId" ->
         Normal(SetProp(createMockRPCResponse(Str("pong")), "id", Num(99)))
    [] action = "shared" -> Normal(shared)
    [] action = "broken" ->
         Normal(createMockRPCErrorResponse(Num(in.code), Undefined, Undefined))
    [] action = "fail" -> Normal(HttpError(in.status, in.statusText))
    [] action = "Object" -> Normal(rpcRequest)
    [] action = "Object.prototype.toString" -> Normal(Str("[object Undefined]"))
    [] OTHER -> Throw(NativeError("TypeError"))

\* a stamp that takes every id but null and undefined for an id
StampIdNonNull(response, id) ==
  IF id.t \notin {"null", "undefined"} THEN SetProp(response, "id", id) ELSE response

\* lines 196-198: the response with the request's id written onto it
StampId(response, id) == IF Truthy(id) THEN SetProp(response, "id", id) ELSE response

\* lines 180-206, after the delay: the outcome of the promise the mock returns,
\* what the handler returned, and the handler's shared object afterwards
\* (a call of the action that throws rejects the promise; so does, the module
\* being strict code, the write of the id onto a string the action returned)
MockOutcome(request, in, shared) ==
  LET parsed == JSONparse(GetProp(request, "body"))
      rpcRequest == parsed.v
      action == LookupAction(mock.actions, GetProp(rpcRequest, "method"))
      called == CallAction(action, rpcRequest, in, shared)
      response == called.v
      stamped == StampId(response, GetProp(rpcRequest, "id"))
  IN IF parsed.thrown
     THEN [out |-> Throw(parsed.v), handled |-> Undefined, shared |-> shared]
     ELSE IF action = "undefined"
     THEN [out |-> NewResponse(
                     JSONstringify(Obj({Prop("jsonrpc", Str("2.0")),
                                        Prop("error", RPCError(Num(MethodNotFound),
                                                               Undefined, Undefined)),
                                        Prop("id", GetProp(rpcRequest, "id"))})),
                     200, ""),
           handled |-> Undefined, shared |-> shared]
     ELSE IF called.thrown
     THEN [out |-> Throw(called.v),
           handled |-> [action |-> action, in |-> in, returned |-> Undefined],
           shared |-> shared]
     ELSE IF response.t = "HttpError"
     THEN [out |-> NewResponse(Str(response.message), response.status,
                               response.statusText),
           handled |-> [action |-> action, in |-> in, returned |-> response], shared |-> shared]
     ELSE IF response.t = "string" /\ Truthy(GetProp(rpcRequest, "id"))
     THEN [out |-> Throw(NativeError("TypeError")),
           handled |-> [action |-> action, in |-> in, returned |-> response],
           shared |-> shared]
     ELSE [out |-> NewResponse(JSONstringify(stamped), 200, "OK"),
           handled |-> [action |-> action, in |-> in, returned |-> response],
           shared |-> IF action = "shared" THEN stamped ELSE shared]

\* the mock transport answers the call: fetch_ is createMockFetch(actions)
MockFetch(c, in) ==
  /\ calls[c].pc = "fetching"
  /\ LET r == MockOutcome(calls[c].sent.request, in, mock.shared)
     IN /\ calls' = [calls EXCEPT ![c] = [@ EXCEPT !.pc = "responded",
                                                   !.fetched = r.out,
                                                   !.handled = r.handled]]
        /\ mock' = [mock EXCEPT !.shared = r.shared]
  /\ UNCHANGED <<cfg, heap>>

(***************************************************************************)
(* The client over the mock transport.                                     *)
(***************************************************************************)
\* what the handlers of the model decide by themselves
ResultValues == {Obj({Prop("x", Num(1))}), Undefined, NaN}

FailStatuses == {404, 500, 200, 304, 600}

StatusTextOf(status) ==
  CASE status = 404 -> "Not Found" [] status = 500 -> "Internal Server Error"
    [] status = 200 -> "OK" [] status = 304 -> "Not Modified" [] OTHER -> "Unknown"

NoInput == [v |-> Undefined, status |-> 0, statusText |-> "", code |-> 0]

\* the inputs that matter to the handler the request of call c reaches
HandlerInputs(c) ==
  LET m == calls[c].method
  IN IF calls[c].pc # "fetching" \/ m \notin mock.actions
        \/ JSONparse(GetProp(calls[c].sent.request, "body")).thrown
     THEN {NoInput}
     ELSE CASE m = "echo" -> {[NoInput EXCEPT !.v = v] : v \in ResultValues}
            [] m = "fail" ->
                 {[NoInput EXCEPT !.status = st, !.statusText = StatusTextOf(st)] :
                    st \in FailStatuses}
            [] m = "broken" -> {[NoInput EXCEPT !.code = InvalidParams]}
            [] OTHER -> {NoInput}

\* the ids an id generator of the model returns
MockIdValues == {Num(7), Num(0), Str(""), Null, Undefined}

\* the clients made over a mock: the registered names, the hooks, the generator
MockProfiles ==
  { [names |-> {}, hooks |-> FALSE, idGenerator |-> "fn"],
    [names |-> {"echo"}, hooks |-> FALSE, idGenerator |-> "fn"],
    [names |-> {"echo"}, hooks |-> TRUE, idGenerator |-> "absent"],
    [names |-> {"shared", "withId"}, hooks |-> FALSE, idGenerator |-> "fn"],
    [names |-> {"fail", "broken"}, hooks |-> FALSE, idGenerator |-> "false"] }

\* the methods called on a mock: the registered ones, and on the mock made
\* with no handler names that are not registered, three of them names that
\* Object.prototype has
MockMethods ==
  IF mock.actions = {}
  THEN {"nope", "constructor", "toString", "valueOf"}
  ELSE mock.actions

MockArgLists == {Arr(<<Obj({Prop("x", Num(1))})>>)}

InitOverMock ==
  /\ \E pr \in MockProfiles :
       /\ cfg = [url |-> "http://host/rpc", beforeFetch |-> pr.hooks,
                 onResponse |-> pr.hooks, onError |-> pr.hooks,
                 idGenerator |-> pr.idGenerator, fetchOptions |-> Obj({})]
       /\ mock = NewMock(pr.names)
  /\ heap = InitHeap
  /\ calls = [c \in Calls |-> IdleCall]

DoMockRequest ==
  \E c \in Calls, m \in MockMethods, a \in MockArgLists, g \in MockIdValues,
     bf \in BeforeFetchChoices :
    Request(c, m, a, g, bf)

DoMockFetch == \E c \in Calls : \E in \in HandlerInputs(c) : MockFetch(c, in)

NextOverMock == DoMockRequest \/ DoMockFetch \/ DoFetchReturn \/ DoJsonReturn

SpecMock == InitOverMock /\ [][NextOverMock]_vars

(***************************************************************************)
(* The envelope of one call, for every argument list.                      *)
(***************************************************************************)
ArgValues ==
  { Undefined, Null, NaN, Num(1), Str("a"), Arr(<<>>), Arr(<<Num(1)>>),
    Obj({}), Obj({Prop("x", Num(1))}) }

\* the argument lists of at most MaxArgs values
AllArgLists == {Arr(a) : a \in UNION {[1..n -> ArgValues] : n \in 0..MaxArgs}}

InitEnvelope ==
  /\ cfg \in {c \in Configs : ~ c.beforeFetch /\ ~ c.onResponse /\ ~ c.onError}
  /\ heap = InitHeap
  /\ calls = [c \in Calls |-> IdleCall]
  /\ mock = InitMock

\* the first call of a client, made with any arguments
DoEnvelopeRequest ==
  \E a \in AllArgLists, g \in IdValues : Request(1, "echo", a, g, "same")

NextEnvelope == DoEnvelopeRequest

SpecEnvelope == InitEnvelope /\ [][NextEnvelope]_vars

(***************************************************************************)
(* The construction of RPCError from the error object of a response, for   *)
(* every code and message a server may send.                               *)
(***************************************************************************)
\* the codes of an error object: the five reserved ones, their neighbours,
\* and other integers
ErrorCodes ==
  { ParseError, InvalidRequest, MethodNotFound, InvalidParams, InternalError,
    ParseError - 1, ParseError + 1, InvalidRequest + 1, InternalError - 1,
    -32000, 0, 1 }

\* the message of an error object: absent, null, empty, non-empty
ErrorMessages == {Undefined, Null, Str(""), Str("boom"), Str("Invalid Params")}

ErrorDatas == {Undefined, Str("detail")}

\* the error objects a server may send
ErrorObjects ==
  { Obj({Prop("code", Num(code)), Prop("message", message), Prop("data", data)}) :
      code \in ErrorCodes, message \in ErrorMessages, data \in ErrorDatas }

\* the ok=true responses that carry such an error object
ErrorResponses ==
  { Normal(HttpResponse(TRUE, 200, "OK",
      JSONstringify(Obj({Prop("jsonrpc", Str("2.0")), Prop("id", Null),
                         Prop("error", e)})))) : e \in ErrorObjects }

InitError ==
  /\ cfg \in {c \in Configs : /\ ~ c.beforeFetch /\ ~ c.onResponse /\ ~ c.onError
                              /\ c.idGenerator = "absent" /\ c.fetchOptions = Obj({})}
  /\ heap = InitHeap
  /\ calls = [c \in Calls |-> IdleCall]
  /\ mock = InitMock

DoErrorRequest == Request(1, "echo", Arr(<<>>), Null, "same")

DoErrorTransport == \E o \in ErrorResponses : Transport(1, o)

DoErrorFetchReturn == FetchReturn(1, "same")

DoErrorJsonReturn == JsonReturn(1, "same", "same")

NextError == DoErrorRequest \/ DoErrorTransport \/ DoErrorFetchReturn \/ DoErrorJsonReturn

SpecError == InitError /\ [][NextError]_vars

(***************************************************************************)
(* Properties of the request pipeline (specification Spec).                *)
(***************************************************************************)
\* how often a stage occurs in the record of a call
Count(events, e) == Cardinality({i \in 1..Len(events) : events[i] = e})

\* the stage a occurs, and before every occurrence of the stage b
Before(events, a, b) ==
  \A j \in 1..Len(events) :
    events[j] = b => \E i \in 1..(j - 1) : events[i] = a

\* the executor of the call has run to its end, or request has thrown
Finished(c) == calls[c].pc \in {"done", "thrown"}

\* the transport answered the call with a response
Responded(c) ==
  calls[c].pc \in {"responded", "parsing", "done"} /\ ~ calls[c].fetched.thrown

NotOk(c) == Responded(c) /\ ~ calls[c].fetched.v.ok

\* the transport answered ok=true with a body whose error field is populated
ErrorPopulated(c) ==
  /\ Responded(c) /\ calls[c].fetched.v.ok
  /\ ~ JSONparse(calls[c].fetched.v.body).thrown
  /\ Truthy(GetProp(JSONparse(calls[c].fetched.v.body).v, "error"))

ErrorField(c) == GetProp(JSONparse(calls[c].fetched.v.body).v, "error")

\* C1 as stated: in every call before-send runs before the transport is
\* invoked, and once the call has run to its end exactly one of on-response
\* and on-error has run.
C1_ExactlyOneHook ==
  \A c \in Calls :
    /\ Before(calls[c].events, "beforeFetch", "fetch")
    /\ calls[c].pc = "done" =>
         Count(calls[c].events, "onResponse") + Count(calls[c].events, "onError") = 1

\* C1 amended: before-send runs before the transport is invoked and neither
\* of the other hooks runs before it; a response with ok=false ends the call
\* with neither hook run; every other finished call has run at least one of
\* them, each at most once, and both only when on-response threw, on-error
\* then running after it on the exception thrown.
C1_HookOrder ==
  \A c \in Calls :
    LET ev == calls[c].events
        nR == Count(ev, "onResponse")
        nE == Count(ev, "onError")
    IN /\ Before(ev, "beforeFetch", "fetch")
       /\ Before(ev, "fetch", "onResponse") /\ Before(ev, "fetch", "onError")
       /\ nR <= 1 /\ nE <= 1
       /\ calls[c].pc = "done" =>
            IF NotOk(c) THEN nR = 0 /\ nE = 0
            ELSE /\ nR + nE >= 1
                 /\ (nR = 1 /\ nE = 1) =>
                      /\ calls[c].onErrorArg = HookError
                      /\ Before(ev, "onResponse", "onError")

\* C1 witness: one finished call that ran neither hook, another that ran both
C1_Witness ==
  \E c \in Calls, d \in Calls :
    /\ calls[c].pc = "done" /\ NotOk(c)
    /\ calls[d].pc = "done"
    /\ Count(calls[d].events, "onResponse") = 1 /\ Count(calls[d].events, "onError") = 1

\* a failure has occurred in the call: request threw, the transport failed or
\* threw, the body did not parse or carried an error, or a hook threw
Failed(c) ==
  \/ calls[c].pc = "thrown"
  \/ calls[c].pc = "done" /\ (NotOk(c) \/ Count(calls[c].events, "onError") = 1)

\* C2 as stated: every failure of a call surfaces as a rejection of the
\* promise request returned; a finished call that failed has a rejected
\* promise, and no exception left it by another way.
C2_FailuresReject ==
  \A c \in Calls :
    (Finished(c) /\ Failed(c)) =>
      calls[c].promise = "rejected" /\ ~ calls[c].unhandled

\* C3: a call answered with ok=false ends rejected with an HttpError of the
\* response's status and statusText, the body never parsed and no hook run
\* after the transport.
C3_TransportFailure ==
  \A c \in Calls :
    NotOk(c) =>
      /\ Count(calls[c].events, "json") = 0
      /\ calls[c].pc # "parsing"
      /\ calls[c].pc = "done" =>
           /\ calls[c].promise = "rejected"
           /\ calls[c].value.t = "HttpError"
           /\ calls[c].value.status = calls[c].fetched.v.status
           /\ calls[c].value.statusText = calls[c].fetched.v.statusText
           /\ Count(calls[c].events, "onError") = 0
           /\ Count(calls[c].events, "onResponse") = 0

\* C3 witness: a client with hooks, a 500 response with a JSON-RPC error body
C3_Witness ==
  \E c \in Calls :
    /\ cfg.onError /\ calls[c].pc = "done" /\ NotOk(c)
    /\ calls[c].fetched.v.status = 500
    /\ calls[c].fetched.v.body.t = "jsonstring"
    /\ calls[c].promise = "rejected"

\* C4 as stated: a call answered ok=true with a populated error field always
\* rejects, the RPCError built from the field's code, message and data being
\* handed to on-error (and being the rejection itself when no on-error hook
\* is configured), and on-response is not invoked.
C4_ProtocolFailure ==
  \A c \in Calls :
    (ErrorPopulated(c) /\ calls[c].pc = "done") =>
      /\ calls[c].promise = "rejected"
      /\ calls[c].onErrorArg =
           RPCError(GetProp(ErrorField(c), "code"), GetProp(ErrorField(c), "message"),
                    GetProp(ErrorField(c), "data"))
      /\ Count(calls[c].events, "onResponse") = 0
      /\ ~ cfg.onError => calls[c].value = calls[c].onErrorArg

\* the headers a client was configured with
ConfiguredHeaders ==
  IF HasProp(cfg.fetchOptions, "headers") THEN UserHeaders ELSE DefaultHeaders

\* C5 as stated: the RequestContext of a call is fresh; the headers handed
\* to before-send are those the client was configured with, whatever the
\* hook did to the context of another call.
C5_FreshContext ==
  \A c \in Calls :
    calls[c].pc # "idle" => calls[c].seenHeaders = ConfiguredHeaders

(***************************************************************************)
(* Properties of the mock transport (specification SpecMock).              *)
(***************************************************************************)
\* the request as the mock decodes it (line 180)
MockRequest(c) == JSONparse(GetProp(calls[c].sent.request, "body"))

\* the mock has answered call c, whose body it could decode
Answered(c) ==
  calls[c].pc \in {"responded", "parsing", "done"} /\ ~ MockRequest(c).thrown

\* a registered handler was invoked for call c
Handled(c) == Answered(c) /\ calls[c].handled # Undefined

\* the body of the response, decoded
ResponseBody(c) == JSONparse(calls[c].fetched.v.body).v

\* C6 as stated: a request for a method that is not registered invokes no
\* handler and is answered with status 200 and an error response of code
\* -32601 carrying the request's id, and the call rejects with an RPCError of
\* code -32601.
C6_MethodNotFound ==
  \A c \in Calls :
    (Answered(c) /\ calls[c].method \notin mock.actions) =>
      /\ calls[c].handled = Undefined
      /\ ~ calls[c].fetched.thrown
      /\ calls[c].fetched.v.status = 200
      /\ GetProp(GetProp(ResponseBody(c), "error"), "code") = Num(MethodNotFound)
      /\ GetProp(ResponseBody(c), "id") = GetProp(MockRequest(c).v, "id")
      /\ calls[c].pc = "done" =>
           /\ calls[c].promise = "rejected"
           /\ calls[c].value.t = "RPCError"
           /\ calls[c].value.code = Num(MethodNotFound)

\* a handler answered call c with an HttpError
HandlerFailed(c) == Handled(c) /\ calls[c].handled.action = "fail"

\* what C7 says of a call whose handler returned an HttpError
TransportFailureSimulated(c) ==
  /\ ~ calls[c].fetched.thrown
  /\ ~ calls[c].fetched.v.ok
  /\ calls[c].fetched.v.status = calls[c].handled.in.status
  /\ calls[c].fetched.v.statusText = calls[c].handled.in.statusText
  /\ calls[c].fetched.v.body =
       Str(ToString(calls[c].handled.in.status) \o " " \o calls[c].handled.in.statusText)
  /\ calls[c].pc = "done" =>
       /\ calls[c].promise = "rejected"
       /\ calls[c].value.t = "HttpError"
       /\ calls[c].value.status = calls[c].handled.in.status
       /\ calls[c].value.statusText = calls[c].handled.in.statusText

\* C7 as stated: whatever status the HttpError a handler returns carries, the
\* mock answers with a failure response of that status and statusText whose
\* body is the error's message, and the call rejects with an HttpError of
\* that status and statusText.
C7_AnyStatus == \A c \in Calls : HandlerFailed(c) => TransportFailureSimulated(c)

\* C7 amended: the same for every status from 300 to 599 that is not a
\* null-body status (304).
C7_FailureStatus ==
  \A c \in Calls :
    (/\ HandlerFailed(c)
     /\ calls[c].handled.in.status >= 300 /\ calls[c].handled.in.status <= 599
     /\ calls[c].handled.in.status \notin NullBodyStatus)
    => TransportFailureSimulated(c)

\* C7 witness: a call whose handler returned HttpError(404) has been rejected
C7_Witness ==
  \E c \in Calls :
    /\ HandlerFailed(c) /\ calls[c].handled.in.status = 404
    /\ calls[c].pc = "done" /\ calls[c].promise = "rejected"

\* a registered handler answered call c with an RPC response
HandlerResponded(c) ==
  /\ Handled(c) /\ calls[c].handled.action \in mock.actions
  /\ calls[c].handled.returned.t = "object"

\* C8: the response to a request answered by a registered handler has status
\* 200; its id is the request's id when that id is truthy, and otherwise (0,
\* "", null, no id) the id of the object the handler returned.
C8_IdStamp ==
  \A c \in Calls :
    HandlerResponded(c) =>
      LET id == GetProp(MockRequest(c).v, "id")
      IN /\ ~ calls[c].fetched.thrown
         /\ calls[c].fetched.v.status = 200 /\ calls[c].fetched.v.ok
         /\ GetProp(ResponseBody(c), "id") =
              IF Truthy(id) THEN id ELSE GetProp(calls[c].handled.returned, "id")

\* C8 witness: the handler that sets the id 99 has answered a request of id 7
\* and a request of id 0
C8_Witness ==
  \E c \in Calls, d \in Calls :
    /\ HandlerResponded(c) /\ calls[c].handled.action = "withId"
    /\ GetProp(MockRequest(c).v, "id") = Num(7)
    /\ GetProp(ResponseBody(c), "id") = Num(7)
    /\ HandlerResponded(d) /\ calls[d].handled.action = "withId"
    /\ GetProp(MockRequest(d).v, "id") = Num(0)
    /\ GetProp(ResponseBody(d), "id") = Num(99)

\* the handler of call c returned createMockRPCResponse(v)
Echoed(c) == Handled(c) /\ calls[c].handled.action = "echo"

\* v is a value JSON.parse(JSON.stringify(v)) reproduces
JsonSafe(v) == v = Undefined \/ ToJSON(v) = v

\* C9 as stated: a call answered by a handler returning
\* createMockRPCResponse(v) resolves, on-error not invoked, the context that
\* passed through on-response carrying data = v.
C9_RoundTrip ==
  \A c \in Calls :
    (Echoed(c) /\ calls[c].pc = "done") =>
      /\ calls[c].promise = "resolved"
      /\ Count(calls[c].events, "onError") = 0
      /\ calls[c].onResponseArg.data = calls[c].handled.in.v
      /\ ~ cfg.onResponse => calls[c].value.data = calls[c].handled.in.v

\* C9 amended: for a value v that JSON reproduces, the context handed to
\* on-response carries data = v; unless on-response throws (on-error then
\* receiving its exception), the call resolves, on-error is not invoked, and
\* with no on-response hook configured the resolved data is v.
C9_JsonRoundTrip ==
  \A c \in Calls :
    (Echoed(c) /\ calls[c].pc = "done" /\ JsonSafe(calls[c].handled.in.v)) =>
      /\ Count(calls[c].events, "onResponse") = 1
      /\ calls[c].onResponseArg.data = calls[c].handled.in.v
      /\ IF Count(calls[c].events, "onError") = 1
         THEN calls[c].onErrorArg = HookError
         ELSE /\ calls[c].promise = "resolved"
              /\ ~ cfg.onResponse => calls[c].value.data = calls[c].handled.in.v

\* C9 witness: a call answered with createMockRPCResponse({x: 1}) has resolved
\* with data {x: 1}
C9_Witness ==
  \E c \in Calls :
    /\ Echoed(c) /\ calls[c].pc = "done"
    /\ calls[c].handled.in.v = Obj({Prop("x", Num(1))})
    /\ calls[c].promise = "resolved"
    /\ calls[c].value.data = Obj({Prop("x", Num(1))})

(***************************************************************************)
(* Properties of the envelope (specification SpecEnvelope).                *)
(***************************************************************************)
\* the call has been made: its envelope is built and serialized
Made(c) == calls[c].pc # "idle"

\* the envelope as serialized into the body of the request options
WireEnvelope(c) == JSONparse(GetProp(calls[c].ctx.request, "body")).v

\* C10 as stated: for an argument list of length other than 1, or of one
\* array, the params of the envelope is the argument list.
C10_ParamsIsList ==
  \A c \in Calls :
    (Made(c) /\ (Len(calls[c].args.e) # 1 \/ IsArray(calls[c].args.e[1]))) =>
      GetProp(calls[c].body, "params") = calls[c].args

\* C10 amended: for an argument list of length 2 or more, or of one array,
\* the params of the envelope is the argument list, unchanged, and the body
\* carries its JSON form; for the empty list there is no params at all.
C10_ParamsIsNonEmptyList ==
  \A c \in Calls :
    Made(c) =>
      /\ (Len(calls[c].args.e) >= 2
          \/ (Len(calls[c].args.e) = 1 /\ IsArray(calls[c].args.e[1]))) =>
           /\ GetProp(calls[c].body, "params") = calls[c].args
           /\ GetProp(WireEnvelope(c), "params") = ToJSON(calls[c].args)
           /\ JsonSafe(calls[c].args) =>
                GetProp(WireEnvelope(c), "params") = calls[c].args
      /\ Len(calls[c].args.e) = 0 =>
           /\ GetProp(calls[c].body, "params") = Undefined
           /\ ~ HasProp(WireEnvelope(c), "params")

\* C10 witness: a call made with one array argument sends the list of that
\* one array
C10_Witness ==
  \E c \in Calls :
    /\ Made(c)
    /\ calls[c].args = Arr(<<Arr(<<Num(1)>>)>>)
    /\ GetProp(WireEnvelope(c), "params") = Arr(<<Arr(<<Num(1)>>)>>)

\* the argument list of the call is exactly one plain structured object
OneObjectArg(c) == Len(calls[c].args.e) = 1 /\ calls[c].args.e[1].t = "object"

\* C11: the params of the envelope is the single argument when the argument
\* list is exactly one object-shaped (non-array structured) argument, the
\* full argument list in every other non-empty case (a single primitive, a
\* single null, a single array, two or more arguments), and is absent for the
\* empty list.
C11_ParamsShape ==
  \A c \in Calls :
    Made(c) =>
      LET args == calls[c].args
          params == GetProp(calls[c].body, "params")
      IN /\ (Len(args.e) = 0) => (params = Undefined /\ ~ HasProp(WireEnvelope(c), "params"))
         /\ OneObjectArg(c) => params = args.e[1]
         /\ (Len(args.e) >= 1 /\ ~ OneObjectArg(c)) => params = args

\* C12: for an argument list of exactly one plain structured object, the
\* params of the envelope is that object, and the serialized body carries the
\* JSON form of the object, not of a list containing it.
C12_SingleObjectUnwrapped ==
  \A c \in Calls :
    (Made(c) /\ OneObjectArg(c)) =>
      /\ GetProp(calls[c].body, "params") = calls[c].args.e[1]
      /\ GetProp(calls[c].body, "params") # calls[c].args
      /\ GetProp(WireEnvelope(c), "params") = ToJSON(calls[c].args.e[1])
      /\ GetProp(WireEnvelope(c), "params").t = "object"

\* C12 witness: a call made with the one argument {x: 1} sends params {x: 1}
C12_Witness ==
  \E c \in Calls :
    /\ Made(c)
    /\ calls[c].args = Arr(<<Obj({Prop("x", Num(1))})>>)
    /\ GetProp(WireEnvelope(c), "params") = Obj({Prop("x", Num(1))})

\* C13: for a call with no arguments, the serialized envelope in the request
\* options handed to beforeFetch and to the transport has no params key, and
\* has the keys jsonrpc, method and id.
C13_NoParamsKey ==
  \A c \in Calls :
    (Made(c) /\ Len(calls[c].args.e) = 0) =>
      /\ calls[c].sent.request = calls[c].ctx.request
      /\ LET wire == JSONparse(GetProp(calls[c].sent.request, "body")).v
         IN /\ wire = WireEnvelope(c)
            /\ ~ HasProp(wire, "params")
            /\ GetProp(wire, "jsonrpc") = Str("2.0")
            /\ GetProp(wire, "method") = Str(calls[c].method)
            /\ HasProp(wire, "id")
            /\ GetProp(wire, "id") = calls[c].id

\* C13 witness: a call with no arguments has been handed to the transport
\* with a body of exactly the keys jsonrpc, method and id
C13_Witness ==
  \E c \in Calls :
    /\ Made(c)
    /\ calls[c].args = Arr(<<>>)
    /\ calls[c].pc = "fetching"
    /\ {p.k : p \in JSONparse(GetProp(calls[c].sent.request, "body")).v.p}
         = {"jsonrpc", "method", "id"}

(***************************************************************************)
(* Properties of RPCError (specification SpecError).                       *)
(***************************************************************************)
\* the call rejected with the RPCError made from the error object of the
\* response
ErrorConstructed(c) ==
  calls[c].pc = "done" /\ ErrorPopulated(c) /\ calls[c].value.t = "RPCError"

\* the codes the JSON-RPC specification reserves
ReservedCodes == {ParseError, InvalidRequest, MethodNotFound, InvalidParams, InternalError}

\* the humanized symbolic name of a reserved code
HumanizedName(code) ==
  CASE code = ParseError -> "parse error"
    [] code = InvalidRequest -> "invalid request"
    [] code = MethodNotFound -> "method not found"
    [] code = InvalidParams -> "invalid params"
    [] code = InternalError -> "internal error"

\* C14: an RPCError made with a reserved code and no message has the
\* humanized name of the code as its message; made with any other code and no
\* message it has the placeholder "Unknown error"; made with a message,
\* empty or not, it has that message; the code and data are the ones given.
C14_ErrorMessage ==
  \A c \in Calls :
    ErrorConstructed(c) =>
      LET code == GetProp(ErrorField(c), "code")
          message == GetProp(ErrorField(c), "message")
          e == calls[c].value
      IN /\ e.code = code
         /\ e.data = GetProp(ErrorField(c), "data")
         /\ (message.t \in {"undefined", "null"} /\ code.n \in ReservedCodes) =>
              e.message = Str(HumanizedName(code.n))
         /\ (message.t \in {"undefined", "null"} /\ code.n \notin ReservedCodes) =>
              e.message = Str("Unknown error")
         /\ message.t = "string" => e.message = message

(***************************************************************************)
(* Properties of the stages of one call (specification Spec).              *)
(***************************************************************************)
\* the positions of a stage in the record of a call
Positions(events, e) == {i \in 1..Len(events) : events[i] = e}

\* the invocations of the transport and of the hooks
Invocations == {"beforeFetch", "fetch", "onResponse", "onError"}

\* the settlements of the promise
Settlements == {"resolve", "reject"}

\* C15: in every call beforeFetch, the transport, onResponse and onError are
\* each invoked at most once; beforeFetch comes before the transport and the
\* transport before onResponse and onError; the promise is settled at most
\* once, and nothing is invoked after it has settled.
C15_StagesOnceInOrder ==
  \A c \in Calls :
    LET ev == calls[c].events
    IN /\ \A s \in Invocations : Cardinality(Positions(ev, s)) <= 1
       /\ \A i \in Positions(ev, "fetch") : \E j \in Positions(ev, "beforeFetch") : j < i
       /\ \A i \in Positions(ev, "onResponse") \cup Positions(ev, "onError") :
            \E j \in Positions(ev, "fetch") : j < i
       /\ \A i \in Positions(ev, "onError") :
            \A j \in Positions(ev, "onResponse") : j < i
       /\ Cardinality(UNION {Positions(ev, s) : s \in Settlements}) <= 1
       /\ \A i \in UNION {Positions(ev, s) : s \in Settlements} : i = Len(ev)
       /\ (calls[c].promise \in {"resolved", "rejected"}) =
            (UNION {Positions(ev, s) : s \in Settlements} # {})

\* C15 witness: a call in which all four were invoked, onResponse throwing
\* into onError, and which then rejected
C15_Witness ==
  \E c \in Calls :
    /\ calls[c].promise = "rejected"
    /\ calls[c].events =
         <<"idGenerator", "beforeFetch", "fetch", "json", "onResponse", "onError", "reject">>

\* a failure of the call after beforeFetch that is not an ok=false response:
\* the transport threw, the body is not JSON, or the error field is populated
FailedInTry(c) ==
  /\ calls[c].pc = "done"
  /\ \/ calls[c].fetched.thrown
     \/ Responded(c) /\ calls[c].fetched.v.ok /\ JSONparse(calls[c].fetched.v.body).thrown
     \/ ErrorPopulated(c)

\* the error such a failure raises
OriginalError(c) ==
  IF calls[c].fetched.thrown THEN calls[c].fetched.v
  ELSE IF JSONparse(calls[c].fetched.v.body).thrown THEN NativeError("SyntaxError")
  ELSE RPCError(GetProp(ErrorField(c), "code"), GetProp(ErrorField(c), "message"),
                GetProp(ErrorField(c), "data"))

\* C16 as stated: every such failure is handed to onError, once, and the call
\* rejects with the value onError returns: the error itself when no onError
\* hook is configured.
C16_FailureThroughOnError ==
  \A c \in Calls :
    FailedInTry(c) =>
      /\ Cardinality(Positions(calls[c].events, "onError")) = 1
      /\ calls[c].onErrorArg = OriginalError(c)
      /\ calls[c].promise = "rejected"
      /\ calls[c].value \in {calls[c].onErrorArg, [t |-> "error", name |-> "WrappedError"]}
      /\ ~ cfg.onError => calls[c].value = OriginalError(c)

(***************************************************************************)
(* Properties of the request options (specification Spec).                 *)
(***************************************************************************)
\* the keys of an object
Keys(o) == {pr.k : pr \in o.p}

\* C17 as stated: the request options handed to beforeFetch in every call
\* are {headers: {Content-Type: application/json}, method: POST} overridden
\* key by key by the fetchOptions of the client, a headers key replacing the
\* default headers as a whole, with the body set to the serialized envelope
\* of this call whatever fetchOptions holds.
C17_MergedOptions ==
  \A c \in Calls :
    Made(c) =>
      LET req == calls[c].ctx.request
          fo == cfg.fetchOptions
      IN /\ Keys(req) = {"headers", "method", "body"} \cup Keys(fo)
         /\ \A k \in Keys(fo) \ {"body", "headers"} : GetProp(req, k) = GetProp(fo, k)
         /\ ~ HasProp(fo, "method") => GetProp(req, "method") = Str("POST")
         /\ calls[c].seenHeaders =
              IF HasProp(fo, "headers") THEN Obj({Prop("X-User", Str("u"))})
              ELSE Obj({Prop("Content-Type", Str("application/json"))})
         /\ GetProp(req, "body") =
              JsonText(ToJSON(Obj({Prop("jsonrpc", Str("2.0")),
                                   Prop("method", Str(calls[c].method)),
                                   Prop("params", GetProp(calls[c].body, "params")),
                                   Prop("id", calls[c].id)})))

(***************************************************************************)
(* Properties of the id of a call (specification SpecMock).                *)
(***************************************************************************)
\* C18: with an id generator configured as a function, every call invokes it
\* exactly once, before beforeFetch, and the id of its envelope is the value
\* that invocation returned; with the generator absent or false it is never
\* invoked and the id is null.  Every call has an invocation of its own.
C18_IdOfEnvelope ==
  \A c \in Calls :
    Made(c) =>
      LET ev == calls[c].events
          wire == WireEnvelope(c)
      IN IF cfg.idGenerator = "fn"
         THEN /\ Positions(ev, "idGenerator") = {1}
              /\ \A i \in Positions(ev, "beforeFetch") : i > 1
              /\ GetProp(calls[c].body, "id") = calls[c].id
              /\ calls[c].id # Undefined =>
                   (HasProp(wire, "id") /\ GetProp(wire, "id") = calls[c].id)
         ELSE /\ Positions(ev, "idGenerator") = {}
              /\ GetProp(calls[c].body, "id") = Null
              /\ HasProp(wire, "id") /\ GetProp(wire, "id") = Null

\* C18 witness: two calls of one client, each with the id its own invocation
\* of the generator returned
C18_Witness ==
  /\ cfg.idGenerator = "fn"
  /\ Made(1) /\ Made(2)
  /\ GetProp(WireEnvelope(1), "id") = Num(7)
  /\ GetProp(WireEnvelope(2), "id") = Num(0)
  /\ \A c \in {1, 2} : Cardinality(Positions(calls[c].events, "idGenerator")) = 1

(***************************************************************************)
(* Properties of the invocation of the transport (specification Spec).     *)
(***************************************************************************)
\* the transport has been invoked for the call
Invoked(c) == Positions(calls[c].events, "fetch") # {}

\* the context a beforeFetch hook returns when it replaces url and options
ReplacedContext ==
  [url |-> [t |-> "URL", href |-> "http://other/rpc"],
   request |-> Obj({Prop("method", Str("PUT")), Prop("headers", Obj({})),
                    Prop("body", Str("hooked body"))})]

\* C19: the transport is invoked with the url and the request options that
\* beforeFetch returned, as returned: the context it was handed, or the one
\* it made in its place; with no beforeFetch hook, with the url of the
\* configuration and the merged options whose body is the serialized envelope.
C19_TransportArguments ==
  \A c \in Calls :
    Invoked(c) =>
      IF cfg.beforeFetch
      THEN calls[c].sent \in {calls[c].ctx, ReplacedContext}
      ELSE /\ calls[c].sent.url.t = "URL"
           /\ calls[c].sent.url.href = cfg.url
           /\ Keys(calls[c].sent.request) = {"headers", "method", "body"} \cup Keys(cfg.fetchOptions)
           /\ GetProp(calls[c].sent.request, "method") = Str("POST")
           /\ GetProp(calls[c].sent.request, "body") = JsonText(ToJSON(calls[c].body))
           /\ GetProp(JSONparse(GetProp(calls[c].sent.request, "body")).v, "method")
                = Str(calls[c].method)

\* C19 witness: the transport answered a call whose hook had replaced the
\* url, the method, the headers and the body
C19_Witness ==
  \E c \in Calls :
    /\ cfg.beforeFetch
    /\ calls[c].pc = "responded"
    /\ calls[c].sent.url.href = "http://other/rpc"
    /\ GetProp(calls[c].sent.request, "method") = Str("PUT")
    /\ GetProp(calls[c].sent.request, "body") = Str("hooked body")

(***************************************************************************)
(* Properties of successive requests to one mock (specification SpecMock). *)
(***************************************************************************)
\* the id of the response object as the handler of "shared" made it
SharedIdAsMade == GetProp(createMockRPCResponse(Str("pong")), "id")

\* C20 as stated: the response of the mock to a request depends on that
\* request and on the handler alone: two requests that are the same, answered
\* by the same handler deciding the same, get the same response; and a
\* request whose id is null is answered with the id the handler set on its
\* response object, never with the id of an earlier request.
C20_IndependentInvocations ==
  /\ \A c \in Calls, d \in Calls :
       ( /\ HandlerResponded(c) /\ HandlerResponded(d)
         /\ MockRequest(c) = MockRequest(d)
         /\ calls[c].handled.action = calls[d].handled.action
         /\ calls[c].handled.in = calls[d].handled.in )
       => calls[c].fetched = calls[d].fetched
  /\ \A c \in Calls :
       ( /\ HandlerResponded(c)
         /\ GetProp(MockRequest(c).v, "id") = Null )
       => GetProp(ResponseBody(c), "id") =
            CASE calls[c].handled.action = "shared" -> SharedIdAsMade
              [] calls[c].handled.action = "withId" -> Num(99)
              [] OTHER -> Null

====
